---- MODULE Spec2Model ----
(***************************************************************************)
(* Model of form_processor.py: OCR text -> extract_fields ->                *)
(* validate_fields / calculate_confidence -> save_outputs or                *)
(* move_to_exceptions, driven by main() over the watch folder.              *)
(*                                                                         *)
(* Text is a sequence of one-character strings, so the regular expressions  *)
(* of extract_fields are evaluated character by character.                  *)
(***************************************************************************)
EXTENDS Integers, Sequences, FiniteSets, TLC

VARIABLES
    watch,       \* files present in WATCH_FOLDER
    content,     \* what OCR yields for each document: a text, or Unreadable
    outJson,     \* OUTPUT_FOLDER/<stem>.json : stem -> processing record
    outCsv,      \* OUTPUT_FOLDER/<stem>.csv  : stem -> single-row field table
    ediOut,      \* EDI_OUTPUT_FOLDER/<stem>.edi : stem -> claim-file content
    excFiles,    \* documents relocated into EXCEPTIONS_FOLDER
    excErrors,   \* EXCEPTIONS_FOLDER/<stem>_errors.json : stem -> error record
    clock,       \* datetime.utcnow(), read and advanced by every timestamp
    mainpc,      \* position of main(): "start", "loop", "done", "crashed"
    todo,        \* entries of WATCH_FOLDER.iterdir() not yet visited
    pfpc,        \* position of process_file
    cur,         \* file_path of the current / last process_file call
    text,        \* local `text` of process_file
    fields,      \* local `fields`
    errors,      \* local `errors`
    confidence,  \* local `confidence`
    exc,         \* the exception being handled / propagated (str(e))
    log          \* operations attempted by the current / last process_file call

vars == <<watch, content, outJson, outCsv, ediOut, excFiles, excErrors, clock,
          mainpc, todo, pfpc, cur, text, fields, errors, confidence, exc, log>>

-----------------------------------------------------------------------------
(* Bounds of the model *)

\* number of files of the universe below that may lie in the watch folder
MaxFiles == 3
\* number of text pieces concatenated into one OCR text
MaxPieces == 3
\* number of form lines concatenated into one OCR text
MaxLines == 4

-----------------------------------------------------------------------------
(* Characters and strings *)

NL == "\n"

UpperCase == <<"A","B","C","D","E","F","G","H","I","J","K","L","M",
               "N","O","P","Q","R","S","T","U","V","W","X","Y","Z">>
LowerCase == <<"a","b","c","d","e","f","g","h","i","j","k","l","m",
               "n","o","p","q","r","s","t","u","v","w","x","y","z">>
Digits == {"0","1","2","3","4","5","6","7","8","9"}

Range(s) == {s[i] : i \in DOMAIN s}

\* re.IGNORECASE: characters are compared after case folding
Lower(c) ==
    IF \E i \in 1..26 : UpperCase[i] = c
    THEN LowerCase[CHOOSE i \in 1..26 : UpperCase[i] = c]
    ELSE c

\* \s
IsSpace(c) == c \in {" ", NL, "\t", "\r"}
\* .  (no DOTALL: every character but the newline)
IsDot(c) == c # NL
\* [\w\/\-]
IsDateChar(c) == Lower(c) \in Range(LowerCase) \/ c \in Digits \/ c \in {"_", "/", "-"}
\* [A-Za-z0-9\-]
IsPolicyChar(c) == Lower(c) \in Range(LowerCase) \/ c \in Digits \/ c = "-"
\* [:\-]
IsSeparator(c) == c \in {":", "-"}

\* the character class of a capturing group: (.+), ([\w\/\-]+), ([A-Za-z0-9\-]+)
InClass(cls, c) ==
    CASE cls = "dot" -> IsDot(c)
      [] cls = "date" -> IsDateChar(c)
      [] cls = "policy" -> IsPolicyChar(c)

\* str.strip()
strip(s) ==
    LET keep == {i \in DOMAIN s : ~IsSpace(s[i])}
    IN  IF keep = {} THEN <<>>
        ELSE LET lo == CHOOSE i \in keep : \A j \in keep : i <= j
                 hi == CHOOSE i \in keep : \A j \in keep : j <= i
             IN  SubSeq(s, lo, hi)

\* str.replace(ch, '')
RECURSIVE RemoveChar(_, _)
RemoveChar(s, ch) ==
    IF s = <<>> THEN <<>>
    ELSE IF Head(s) = ch THEN RemoveChar(Tail(s), ch)
         ELSE <<Head(s)>> \o RemoveChar(Tail(s), ch)

-----------------------------------------------------------------------------
(* Regular-expression search, as re.search evaluates the four patterns *)

PatientLabels == << <<"p","a","t","i","e","n","t"," ","n","a","m","e">> >>
DobLabels == << <<"d","o","b">>,
                <<"d","a","t","e"," ","o","f"," ","b","i","r","t","h">> >>
PolicyLabels == << <<"p","o","l","i","c","y"," ","n","u","m","b","e","r">>,
                   <<"m","e","m","b","e","r"," ","i","d">> >>
ProviderLabels == << <<"p","r","o","v","i","d","e","r"," ","n","a","m","e">>,
                     <<"p","h","y","s","i","c","i","a","n"," ","n","a","m","e">> >>

\* the literal `label` matches at position i of t (case-insensitively)
LabelAt(t, i, label) ==
    /\ i + Len(label) - 1 <= Len(t)
    /\ \A k \in 1..Len(label) : Lower(t[i + k - 1]) = label[k]

\* position just behind the first alternative of `labels` matching at i; 0 if none
AfterLabel(t, i, labels) ==
    LET hits == {a \in DOMAIN labels : LabelAt(t, i, labels[a])}
    IN  IF hits = {} THEN 0
        ELSE i + Len(labels[CHOOSE a \in hits : \A b \in hits : a <= b])

\* \s*(C+) at position p, greedy with backtracking: \s* takes the longest run
\* of whitespace and gives characters back until a character of class C follows;
\* the group then runs as far as the class allows.
\* Result: <<from, to>> of the group, or <<>> when there is no match.
Capture(t, p, cls) ==
    LET n == Len(t)
        k == CHOOSE m \in 0..(n + 1 - p) :
                /\ \A j \in 0..(m - 1) : IsSpace(t[p + j])
                /\ (p + m > n \/ ~IsSpace(t[p + m]))
        starts == {j \in 0..k : p + j <= n /\ InClass(cls, t[p + j])}
    IN  IF starts = {} THEN <<>>
        ELSE LET q == p + (CHOOSE j \in starts : \A j2 \in starts : j2 <= j)
                 e == CHOOSE m \in q..n :
                        /\ \A x \in q..m : InClass(cls, t[x])
                        /\ (m = n \/ ~InClass(cls, t[m + 1]))
             IN  <<q, e>>

\* label [:\-]? \s* (C+) anchored at position i: the optional separator is
\* taken first and given back only if the rest then fails to match
MatchAt(t, i, labels, cls) ==
    LET p == AfterLabel(t, i, labels)
    IN  IF p = 0 THEN <<>>
        ELSE IF p <= Len(t) /\ IsSeparator(t[p]) /\ Capture(t, p + 1, cls) # <<>>
             THEN Capture(t, p + 1, cls)
             ELSE Capture(t, p, cls)

\* re.search: the match at the leftmost position where the pattern matches;
\* the captured group as text, or NoMatch
NoMatch == [matched |-> FALSE, group |-> <<>>]

Search(t, labels, cls) ==
    LET at == {i \in 1..Len(t) : MatchAt(t, i, labels, cls) # <<>>}
    IN  IF at = {} THEN NoMatch
        ELSE LET i == CHOOSE x \in at : \A y \in at : x <= y
                 g == MatchAt(t, i, labels, cls)
             IN  [matched |-> TRUE, group |-> SubSeq(t, g[1], g[2])]

-----------------------------------------------------------------------------
(* Configuration *)

REQUIRED_FIELDS == <<"patient_name", "date_of_birth", "policy_number", "provider_name">>

ELIGIBLE_SUFFIXES == {<<".","p","d","f">>, <<".","p","n","g">>, <<".","j","p","g">>,
                      <<".","j","p","e","g">>, <<".","t","i","f","f">>}

UNKNOWN == <<"U","N","K","N","O","W","N">>

\* the empty dict {} / the empty list [] / the empty str ''
Empty == <<>>

\* dict[key] = value
Put(d, key, value) == [x \in (DOMAIN d) \cup {key} |-> IF x = key THEN value ELSE d[x]]

\* dict.get(key, default)
Get(d, key, default) == IF key \in DOMAIN d THEN d[key] ELSE default

-----------------------------------------------------------------------------
(* dateutil: date_parser.parse(token).date().isoformat()                   *)
(* Modelled for numeric MM/DD/YYYY tokens, which it normalises to           *)
(* YYYY-MM-DD; for every other token of the model's texts it raises and     *)
(* extract_fields keeps the token verbatim.                                 *)

IsNumericDate(tok) ==
    /\ Len(tok) = 10
    /\ tok[3] = "/" /\ tok[6] = "/"
    /\ \A i \in {1, 2, 4, 5, 7, 8, 9, 10} : tok[i] \in Digits
    /\ <<tok[1], tok[2]>> \in {<<"0", d>> : d \in Digits \ {"0"}}
                              \cup {<<"1","0">>, <<"1","1">>, <<"1","2">>}
    /\ <<tok[4], tok[5]>> \in ({<<a, b>> : a \in {"0","1","2"}, b \in Digits}
                                \ {<<"0","0">>, <<"2","9">>})

date_parse(tok) ==
    IF IsNumericDate(tok)
    THEN [ok |-> TRUE,
          iso |-> SubSeq(tok, 7, 10) \o <<"-">> \o SubSeq(tok, 1, 2)
                    \o <<"-">> \o SubSeq(tok, 4, 5)]
    ELSE [ok |-> FALSE, iso |-> <<>>]

-----------------------------------------------------------------------------
(* FIELD EXTRACTION *)

extract_patient_name(t) == Search(t, PatientLabels, "dot")

extract_fields(t) ==
    LET name_match == extract_patient_name(t)
        dob_match == Search(t, DobLabels, "date")
        policy_match == Search(t, PolicyLabels, "policy")
        provider_match == Search(t, ProviderLabels, "dot")
        found == {f \in Range(REQUIRED_FIELDS) :
                    \/ f = "patient_name" /\ name_match.matched
                    \/ f = "date_of_birth" /\ dob_match.matched
                    \/ f = "policy_number" /\ policy_match.matched
                    \/ f = "provider_name" /\ provider_match.matched}
    IN  [f \in found |->
            CASE f = "patient_name" -> strip(name_match.group)
              [] f = "date_of_birth" ->
                    IF date_parse(dob_match.group).ok
                    THEN date_parse(dob_match.group).iso
                    ELSE strip(dob_match.group)
              [] f = "policy_number" -> strip(policy_match.group)
              [] f = "provider_name" -> strip(provider_match.group)]

-----------------------------------------------------------------------------
(* CONFIDENCE SCORING *)

\* `f in fields and fields[f]`
Filled(fs, f) == f \in DOMAIN fs /\ fs[f] # Empty

\* variant: counts a field as filled as soon as its key is present
calculate_confidence_KeysOnly(fs) ==
    (Cardinality({i \in DOMAIN REQUIRED_FIELDS : REQUIRED_FIELDS[i] \in DOMAIN fs}) * 100)
        \div Len(REQUIRED_FIELDS)

\* round(filled / 4 * 100, 2), in percent; filled * 100 / 4 is a whole number,
\* which the rounding leaves alone
calculate_confidence(fs) ==
    LET filled == Cardinality({i \in DOMAIN REQUIRED_FIELDS : Filled(fs, REQUIRED_FIELDS[i])})
    IN  (filled * 100) \div Len(REQUIRED_FIELDS)

-----------------------------------------------------------------------------
(* VALIDATION *)

\* f"Missing required field: {field}"
MissingMessage(field) == <<"Missing required field: ", field>>

\* `field not in fields or not fields[field]`
IsMissing(fs, field) == field \notin DOMAIN fs \/ fs[field] = Empty

RECURSIVE ValidateFrom(_, _)
ValidateFrom(fs, i) ==
    IF i > Len(REQUIRED_FIELDS) THEN <<>>
    ELSE (IF IsMissing(fs, REQUIRED_FIELDS[i])
          THEN <<MissingMessage(REQUIRED_FIELDS[i])>>
          ELSE <<>>) \o ValidateFrom(fs, i + 1)

\* variant: reports only the fields whose key is absent, not the empty ones
validate_fields_KeysOnly(fs) ==
    SelectSeq([i \in DOMAIN REQUIRED_FIELDS |-> MissingMessage(REQUIRED_FIELDS[i])],
              LAMBDA m : m[2] \notin DOMAIN fs)

validate_fields(fs) == ValidateFrom(fs, 1)

-----------------------------------------------------------------------------
(* EDI GENERATION *)

\* base_filename[:9].ljust(9, "0")
control_number(base_filename) ==
    LET cut == SubSeq(base_filename, 1, IF Len(base_filename) < 9 THEN Len(base_filename) ELSE 9)
    IN  cut \o [i \in 1..(9 - Len(cut)) |-> "0"]

EdiProvider(fs) == Get(fs, "provider_name", UNKNOWN)
\* variant: leaves a missing patient name blank
EdiPatient_Blank(fs) == Get(fs, "patient_name", Empty)

EdiPatient(fs) == Get(fs, "patient_name", UNKNOWN)
EdiPolicy(fs) == Get(fs, "policy_number", UNKNOWN)
EdiBirthDate(fs) == RemoveChar(Get(fs, "date_of_birth", Empty), "-")

\* the substitution points of the fixed template; `today` and `now` are the two
\* clock readings
edi_content(fs, base_filename, today, now) ==
    [ISA    |-> <<today, now, control_number(base_filename)>>,
     GS     |-> <<today, now>>,
     BHT    |-> <<today, now>>,
     NM1_85 |-> EdiProvider(fs),
     NM1_IL |-> <<EdiPatient(fs), EdiPolicy(fs)>>,
     DMG    |-> EdiBirthDate(fs),
     IEA    |-> control_number(base_filename)]

-----------------------------------------------------------------------------
(* Files, exceptions and the operations log *)

\* a path of the watch folder: Path.stem and Path.suffix
File(stem, suffix) == [stem |-> stem, suffix |-> suffix]
NoFile == File(<<>>, <<>>)

\* str.lower()
lower(s) == [i \in DOMAIN s |-> Lower(s[i])]

\* str(e) of the exception an operation raises
Raised(op) == <<"Error: ", op>>

\* one entry of the log: an operation attempted and whether it succeeded
Op(op, ok) == [op |-> op, ok |-> ok]

Attempts(l, op) == Cardinality({i \in DOMAIN l : l[i].op = op})
Succeeded(l, op) == \E i \in DOMAIN l : l[i].op = op /\ l[i].ok

\* the outcome of a call: the folders and clock after it, the operations it
\* attempted, and whether it raised
Outcome(w, j, c, e, xf, xe, clk, ops, raised, msg) ==
    [watch |-> w, outJson |-> j, outCsv |-> c, ediOut |-> e, excFiles |-> xf,
     excErrors |-> xe, clock |-> clk, ops |-> ops, raised |-> raised, exc |-> msg]

-----------------------------------------------------------------------------
(* EDI GENERATION, OUTPUT + AUDIT: fail names the write that raises, if any *)

generate_edi_837(fs, base_filename, clk, fail) ==
    LET today == clk
        now == clk + 1
    IN  IF fail = "edi"
        THEN [ediOut |-> ediOut, clock |-> clk + 2, ops |-> <<Op("edi", FALSE)>>,
              raised |-> TRUE, exc |-> Raised("edi")]
        ELSE [ediOut |-> Put(ediOut, base_filename, edi_content(fs, base_filename, today, now)),
              clock |-> clk + 2, ops |-> <<Op("edi", TRUE)>>,
              raised |-> FALSE, exc |-> <<>>]

\* "success" if confidence == 100 else "partial"
Status(conf) == IF conf = 100 THEN "success" ELSE "partial"

save_outputs(fs, base_filename, conf, fail) ==
    LET timestamp == clock
        output_data == [extracted_fields |-> fs, confidence_score |-> conf,
                        processed_at |-> timestamp, status |-> Status(conf)]
        json == Put(outJson, base_filename, output_data)
        csv == Put(outCsv, base_filename, fs)
        edi == generate_edi_837(fs, base_filename, clock + 1, fail)
        call == <<Op("save_outputs", TRUE)>>
    IN  IF fail = "json"
        THEN Outcome(watch, outJson, outCsv, ediOut, excFiles, excErrors, clock + 1,
                     call \o <<Op("json", FALSE)>>, TRUE, Raised("json"))
        ELSE IF fail = "csv"
        THEN Outcome(watch, json, outCsv, ediOut, excFiles, excErrors, clock + 1,
                     call \o <<Op("json", TRUE), Op("csv", FALSE)>>, TRUE, Raised("csv"))
        ELSE Outcome(watch, json, csv, edi.ediOut, excFiles, excErrors, edi.clock,
                     call \o <<Op("json", TRUE), Op("csv", TRUE)>> \o edi.ops,
                     edi.raised, edi.exc)

-----------------------------------------------------------------------------
(* EXCEPTION HANDLING: fail names the step that raises, if any.  Path.rename *)
(* also raises when the file is no longer at file_path.                     *)

move_to_exceptions(file_path, errs, fail) ==
    LET error_log == [file |-> file_path, errors |-> errs, timestamp |-> clock]
        call == <<Op("move_to_exceptions", TRUE)>>
    IN  IF fail = "rename" \/ file_path \notin watch
        THEN Outcome(watch, outJson, outCsv, ediOut, excFiles, excErrors, clock,
                     call \o <<Op("rename", FALSE)>>, TRUE, Raised("rename"))
        ELSE IF fail = "errors_json"
        THEN Outcome(watch \ {file_path}, outJson, outCsv, ediOut,
                     excFiles \cup {file_path}, excErrors, clock + 1,
                     call \o <<Op("rename", TRUE), Op("errors_json", FALSE)>>,
                     TRUE, Raised("errors_json"))
        ELSE Outcome(watch \ {file_path}, outJson, outCsv, ediOut,
                     excFiles \cup {file_path},
                     Put(excErrors, file_path.stem, error_log), clock + 1,
                     call \o <<Op("rename", TRUE), Op("errors_json", TRUE)>>,
                     FALSE, <<>>)

\* the folders and the clock take the values a call left
Apply(o) ==
    /\ watch' = o.watch
    /\ outJson' = o.outJson
    /\ outCsv' = o.outCsv
    /\ ediOut' = o.ediOut
    /\ excFiles' = o.excFiles
    /\ excErrors' = o.excErrors
    /\ clock' = o.clock
    /\ log' = log \o o.ops

-----------------------------------------------------------------------------
(* OCR FUNCTIONS: content[f].pages holds what pytesseract reads on each page *)

extract_text_from_image(page) == page

RECURSIVE extract_text_from_pdf(_)
extract_text_from_pdf(pages) ==
    IF pages = <<>> THEN <<>>
    ELSE extract_text_from_image(Head(pages)) \o <<NL>> \o extract_text_from_pdf(Tail(pages))

OcrText(f) ==
    IF lower(f.suffix) = <<".","p","d","f">>
    THEN extract_text_from_pdf(content[f].pages)
    ELSE extract_text_from_image(content[f].pages[1])

-----------------------------------------------------------------------------
(* MAIN PROCESSOR: process_file, one action per step of its body *)

Folders == <<watch, outJson, outCsv, ediOut, excFiles, excErrors, clock>>
Locals == <<text, fields, errors, confidence>>

\* variant: the two branches exchanged
Branch_Inverted(errs) == IF errs # Empty THEN "save" ELSE "route"

\* which branch of `if errors:` is taken
Branch(errs) == IF errs # Empty THEN "route" ELSE "save"

\* lines 201-210: OCR, then extraction, validation and scoring
PF_Extract ==
    /\ pfpc = "try"
    /\ IF content[cur].readable
       THEN /\ text' = OcrText(cur)
            /\ fields' = extract_fields(text')
            /\ errors' = validate_fields(fields')
            /\ confidence' = calculate_confidence(fields')
            /\ log' = log \o <<Op("ocr", TRUE), Op("validate_fields", TRUE)>>
            /\ pfpc' = Branch(errors')
            /\ exc' = exc
       ELSE /\ log' = log \o <<Op("ocr", FALSE)>>
            /\ pfpc' = "except"
            /\ exc' = Raised("ocr")
            /\ UNCHANGED Locals
    /\ UNCHANGED <<Folders, content, mainpc, todo, cur>>

\* lines 212-214: validation failed
PF_Route ==
    /\ pfpc = "route"
    /\ \E fail \in {"none", "rename", "errors_json"} :
         LET o == move_to_exceptions(cur, errors, fail)
         IN  /\ Apply(o)
             /\ pfpc' = IF o.raised THEN "except" ELSE "returned"
             /\ exc' = o.exc
    /\ UNCHANGED <<content, mainpc, todo, cur, Locals>>

\* lines 215-217: validation passed
PF_Save ==
    /\ pfpc = "save"
    /\ \E fail \in {"none", "json", "csv", "edi"} :
         LET o == save_outputs(fields, cur.stem, confidence, fail)
         IN  /\ Apply(o)
             /\ pfpc' = IF o.raised THEN "except" ELSE "returned"
             /\ exc' = o.exc
    /\ UNCHANGED <<content, mainpc, todo, cur, Locals>>

\* lines 219-222: the handler; what it raises leaves process_file and, under
\* main(), ends the run
PF_Except ==
    /\ pfpc = "except"
    /\ \E fail \in {"none", "rename", "errors_json"} :
         LET o == move_to_exceptions(cur, <<exc>>, fail)
         IN  /\ Apply(o)
             /\ pfpc' = IF o.raised THEN "raised" ELSE "returned"
             /\ exc' = o.exc
             /\ mainpc' = IF o.raised THEN "crashed" ELSE mainpc
    /\ UNCHANGED <<content, todo, cur, Locals>>

-----------------------------------------------------------------------------
(* RUNNER: main() *)

Eligible(f) == lower(f.suffix) \in ELIGIBLE_SUFFIXES

\* WATCH_FOLDER.iterdir()
Main_Start ==
    /\ mainpc = "start"
    /\ todo' = watch
    /\ mainpc' = "loop"
    /\ UNCHANGED <<Folders, content, pfpc, cur, Locals, exc, log>>

\* one turn of the loop: the directory yields its entries in no fixed order
Main_Iterate ==
    /\ mainpc = "loop"
    /\ pfpc \in {"idle", "returned"}
    /\ \E f \in todo :
         /\ todo' = todo \ {f}
         /\ IF Eligible(f)
            THEN /\ pfpc' = "try"
                 /\ cur' = f
                 /\ text' = Empty /\ fields' = Empty /\ errors' = Empty
                 /\ confidence' = 0
                 /\ exc' = Empty
                 /\ log' = Empty
            ELSE UNCHANGED <<pfpc, cur, Locals, exc, log>>
    /\ UNCHANGED <<Folders, content, mainpc>>

Main_Done ==
    /\ mainpc = "loop"
    /\ pfpc \in {"idle", "returned"}
    /\ todo = {}
    /\ mainpc' = "done"
    /\ UNCHANGED <<Folders, content, todo, pfpc, cur, Locals, exc, log>>

Next ==
    \/ Main_Start
    \/ Main_Iterate
    \/ Main_Done
    \/ PF_Extract
    \/ PF_Route
    \/ PF_Save
    \/ PF_Except

-----------------------------------------------------------------------------
(* Inputs: the documents of the watch folder and what OCR reads in them *)

AllFiles ==
    << File(<<"f","o","r","m">>, <<".","p","d","f">>),
       File(<<"f","o","r","m">>, <<".","P","N","G">>),
       File(<<"n","o","t","e","s">>, <<".","t","x","t">>),
       File(<<"s","c","a","n","_","2","0","2","4","_","0","0","0","1">>, <<".","j","p","g">>),
       File(<<"c","l","a","i","m">>, <<".","t","i","f","f">>) >>

Files == {AllFiles[i] : i \in {k \in DOMAIN AllFiles : k <= MaxFiles}}

\* lines of a form as OCR reads them
AltLines ==
    << <<"M","e","m","b","e","r"," ","I","D",":"," ","7","7","\n">>,
       <<"D","a","t","e"," ","o","f"," ","B","i","r","t","h",":"," ","u","n","k","n","o","w","n","\n">> >>

FormLines ==
    << <<"P","a","t","i","e","n","t"," ","N","a","m","e",":"," ","J","a","n","e"," ","D","o","e","\n">>,
       <<"D","O","B",":"," ","0","1","/","0","2","/","1","9","9","0","\n">>,
       <<"P","o","l","i","c","y"," ","N","u","m","b","e","r",":"," ","A","-","1","\n">>,
       <<"P","r","o","v","i","d","e","r"," ","N","a","m","e",":"," ","D","r"," ","R","o","e","\n">>,
       <<"P","a","t","i","e","n","t"," ","N","a","m","e",":"," ">>,
       <<"P","h","y","s","i","c","i","a","n"," ","N","a","m","e",":"," ">> >>

\* fragments of text
Pieces ==
    << <<"P","a","t","i","e","n","t"," ","N","a","m","e">>,
       <<"p","a","t","i","e","n","t"," ","n","a","m","e">>,
       <<":">>, <<" ">>, <<"\n">>, <<"J","o">> >>

RECURSIVE Join(_, _)
Join(parts, idx) ==
    IF idx = <<>> THEN <<>> ELSE parts[Head(idx)] \o Join(parts, Tail(idx))

SeqsUpTo(S, n) == UNION {[1..k -> S] : k \in 0..n}

\* every concatenation of at most MaxPieces fragments
PieceTexts == {Join(Pieces, idx) : idx \in SeqsUpTo(DOMAIN Pieces, MaxPieces)}

\* every arrangement of at most MaxLines different form lines
LineTexts ==
    {Join(FormLines, idx) :
        idx \in {s \in SeqsUpTo(DOMAIN FormLines, MaxLines) :
                    \A i, j \in DOMAIN s : i # j => s[i] # s[j]}}

\* the forms of a run: a complete form, a form without provider, and a form
\* whose patient name is blank
RunTexts ==
    {Join(FormLines \o AltLines, idx) : idx \in {<<1, 2, 7, 4>>, <<1, 2, 3>>, <<8, 3, 4, 5>>}}

Document(t) == [readable |-> TRUE, pages |-> <<t>>]
Unreadable == [readable |-> FALSE, pages |-> <<>>]

-----------------------------------------------------------------------------
(* Initial states *)

InitFolders ==
    /\ outJson = Empty /\ outCsv = Empty /\ ediOut = Empty
    /\ excFiles = {} /\ excErrors = Empty
    /\ clock = 0

InitCall ==
    /\ cur = NoFile
    /\ text = Empty /\ errors = Empty /\ confidence = 0
    /\ exc = Empty /\ log = Empty

\* a run of main() over any watch folder of documents
Init ==
    /\ watch \in SUBSET Files
    /\ content \in {c \in [watch -> {Unreadable} \cup {Document(t) : t \in RunTexts}] :
                      \A f \in watch : ~Eligible(f) => c[f] = Unreadable}
    /\ InitFolders /\ InitCall
    /\ fields = Empty
    /\ mainpc = "start" /\ todo = {} /\ pfpc = "idle"

\* a run of main() over one document, of any text
InitSingle ==
    /\ \E f \in {AllFiles[1], AllFiles[2]} :
         /\ watch = {f}
         /\ content \in [{f} -> {Document(t) : t \in PieceTexts \cup LineTexts}]
    /\ InitFolders /\ InitCall
    /\ fields = Empty
    /\ mainpc = "start" /\ todo = {} /\ pfpc = "idle"

Spec == Init /\ [][Next]_vars

SpecSingle == InitSingle /\ [][Next]_vars

-----------------------------------------------------------------------------
(* Direct calls of calculate_confidence, validate_fields and                *)
(* generate_edi_837 on any mapping of the four fields to absent, empty or   *)
(* non-empty values                                                         *)

SampleValue(f) ==
    CASE f = "patient_name" -> <<"J","a","n","e"," ","D","o","e">>
      [] f = "date_of_birth" -> <<"1","9","9","0","-","0","1","-","0","2">>
      [] f = "policy_number" -> <<"A","-","1">>
      [] f = "provider_name" -> <<"D","r"," ","R","o","e">>

FieldMaps ==
    UNION {{m \in [P -> {Empty} \cup {SampleValue(f) : f \in P}] :
                \A f \in P : m[f] \in {Empty, SampleValue(f)}} :
           P \in SUBSET Range(REQUIRED_FIELDS)}

InitFields ==
    /\ fields \in FieldMaps
    /\ watch = {} /\ content = Empty
    /\ InitFolders /\ InitCall
    /\ mainpc = "none" /\ todo = {} /\ pfpc = "direct"

Direct_calculate_confidence ==
    /\ pfpc = "direct"
    /\ Attempts(log, "calculate_confidence") = 0
    /\ confidence' = calculate_confidence(fields)
    /\ log' = log \o <<Op("calculate_confidence", TRUE)>>
    /\ UNCHANGED <<Folders, content, mainpc, todo, pfpc, cur, text, fields, errors, exc>>

Direct_validate_fields ==
    /\ pfpc = "direct"
    /\ Attempts(log, "validate_fields") = 0
    /\ errors' = validate_fields(fields)
    /\ log' = log \o <<Op("validate_fields", TRUE)>>
    /\ UNCHANGED <<Folders, content, mainpc, todo, pfpc, cur, text, fields, confidence, exc>>

Direct_generate_edi_837 ==
    /\ pfpc = "direct"
    /\ Attempts(log, "edi") = 0
    /\ \E f \in Files, fail \in {"none", "edi"} :
         LET o == generate_edi_837(fields, f.stem, clock, fail)
         IN  /\ ediOut' = o.ediOut
             /\ clock' = o.clock
             /\ log' = log \o o.ops
             /\ exc' = o.exc
             /\ cur' = f
    /\ UNCHANGED <<watch, outJson, outCsv, excFiles, excErrors, content, mainpc, todo,
                   pfpc, text, fields, errors, confidence>>

NextFields ==
    \/ Direct_calculate_confidence
    \/ Direct_validate_fields
    \/ Direct_generate_edi_837

SpecFields == InitFields /\ [][NextFields]_vars

-----------------------------------------------------------------------------
(* Properties *)

\* the current call of process_file has ended: it returned or it raised
Ended == pfpc \in {"returned", "raised"}

\* the call has read the document and validated its fields
Validated == Succeeded(log, "validate_fields")

\* OCR raised in this call
OcrRaised == Attempts(log, "ocr") = 1 /\ ~Succeeded(log, "ocr")

\* the required fields that are absent or empty, in the order of REQUIRED_FIELDS
MissingFields ==
    LET Absent(f) == f \notin DOMAIN fields \/ fields[f] = <<>>
    IN  SelectSeq(REQUIRED_FIELDS, Absent)

\* C1: when process_file ends, exactly one of the processing record
\* <stem>.json and the exception record <stem>_errors.json was written by it,
\* whichever step failed.
C1_ExactlyOneRecord ==
    Ended => (Succeeded(log, "json") # Succeeded(log, "errors_json"))

\* C2: no failure is fatal to the run: process_file never ends by raising,
\* and main() never stops while eligible files are still to be visited.
C2_NoFailureIsFatal ==
    /\ pfpc # "raised"
    /\ ~(mainpc = "crashed" /\ \E f \in todo : Eligible(f))

\* C3: a document whose OCR raises is relocated to the exceptions folder and
\* none of <stem>.json, <stem>.csv, <stem>.edi is written by that processing.
C3_OcrFailureRelocated ==
    (Ended /\ OcrRaised) =>
        /\ cur \notin watch
        /\ cur \in excFiles
        /\ \A op \in {"json", "csv", "edi"} : Attempts(log, op) = 0

C5_RecordsImmutable ==
    [][\A s \in DOMAIN outJson : s \in DOMAIN outJson' /\ outJson'[s] = outJson[s]]_vars

\* C6: no retry: within one process_file call, text extraction, output writing
\* and exception routing are each attempted at most once.
C6_NoRetry ==
    /\ Attempts(log, "ocr") <= 1
    /\ Attempts(log, "save_outputs") <= 1
    /\ Attempts(log, "move_to_exceptions") <= 1

\* C7: calculate_confidence is 100 exactly when all four required fields are
\* present and non-empty, and in general (present non-empty fields) / 4 x 100.
C7_ConfidenceCountsFilledFields ==
    Succeeded(log, "calculate_confidence") =>
        LET filled == {f \in Range(REQUIRED_FIELDS) : f \in DOMAIN fields /\ fields[f] # <<>>}
        IN  /\ confidence = 100 <=> filled = Range(REQUIRED_FIELDS)
            /\ 4 * confidence = 100 * Cardinality(filled)

\* C7 witness: the score of a mapping with three values and one empty value
C7_Witness ==
    /\ pfpc = "direct"
    /\ Succeeded(log, "calculate_confidence")
    /\ confidence = 75
    /\ \E f \in DOMAIN fields : fields[f] = <<>>

\* validate_fields lists "Missing required field: <name>" once for each
\* required field that is absent or empty, in the order of REQUIRED_FIELDS,
\* and for no other field
ErrorsListMissingFields ==
    /\ Len(errors) = Len(MissingFields)
    /\ \A i \in DOMAIN errors : errors[i] = <<"Missing required field: ", MissingFields[i]>>
    /\ DOMAIN fields = {} => Len(errors) = 4

\* C8 as claimed: the list is as above and the document is routed to
\* exceptions exactly when the list is non-empty.
C8_RoutedIffErrors ==
    Validated =>
        /\ ErrorsListMissingFields
        /\ Ended => (Attempts(log, "move_to_exceptions") > 0 <=> errors # <<>>)

\* C8 amended: the list is as above; the `if errors` branch of process_file
\* calls move_to_exceptions with it exactly when it is non-empty and
\* save_outputs exactly when it is empty; a document whose list is empty is
\* routed to exceptions only by the handler, after writing its outputs raised.
C8_BranchIffErrors ==
    Validated =>
        /\ ErrorsListMissingFields
        /\ pfpc = "route" <=> (Len(log) = 2 /\ errors # <<>>)
        /\ pfpc = "save" <=> (Len(log) = 2 /\ errors = <<>>)
        /\ Len(log) > 2 => (log[3].op = "move_to_exceptions" <=> errors # <<>>)
        /\ Len(log) > 2 => (log[3].op = "save_outputs" <=> errors = <<>>)
        /\ (errors = <<>> /\ Attempts(log, "move_to_exceptions") > 0) =>
                \E op \in {"json", "csv", "edi"} :
                    Attempts(log, op) = 1 /\ ~Succeeded(log, op)

\* C8 witness: a page without any label was validated and routed to exceptions
C8_Witness ==
    /\ pfpc = "returned"
    /\ Validated
    /\ Len(errors) = 4
    /\ Succeeded(log, "errors_json")
    /\ excErrors[cur.stem].errors = errors

\* the first position of t at which the label "Patient Name" stands; 0 if none
FirstPatientLabel(t) ==
    LET at == {i \in 1..Len(t) : LabelAt(t, i, PatientLabels[1])}
    IN  IF at = {} THEN 0 ELSE CHOOSE i \in at : \A j \in at : i <= j

\* what follows position p of t up to the end of that line
RestOfLine(t, p) ==
    LET ends == {i \in p..Len(t) : t[i] = NL}
        stop == IF ends = {} THEN Len(t) + 1 ELSE CHOOSE i \in ends : \A j \in ends : i <= j
    IN  SubSeq(t, p, stop - 1)

\* the text following the first label and its optional separator on its line
PatientLine(t) ==
    LET p == FirstPatientLabel(t) + Len(PatientLabels[1])
    IN  IF p <= Len(t) /\ IsSeparator(t[p]) THEN RestOfLine(t, p + 1) ELSE RestOfLine(t, p)

\* the text following the first label on its line, the separator not taken
PatientLineWithSeparator(t) ==
    RestOfLine(t, FirstPatientLabel(t) + Len(PatientLabels[1]))

\* C9: patient_name, when extract_fields sets it, is the text that follows the
\* first "Patient Name" label (and optional separator) up to the end of that
\* line, never text of a later line or occurrence; without the label in the
\* text the field is absent.
C9_PatientNameOnLabelLine ==
    Validated =>
        /\ "patient_name" \in DOMAIN fields =>
                /\ FirstPatientLabel(text) # 0
                /\ fields["patient_name"] \in {strip(PatientLine(text)),
                                               strip(PatientLineWithSeparator(text))}
        /\ FirstPatientLabel(text) = 0 => "patient_name" \notin DOMAIN fields

\* C10: every processing record written has confidence_score 100 and status
\* "success"; no record has status "partial".
C10_RecordsAreComplete ==
    \A s \in DOMAIN outJson :
        /\ outJson[s].confidence_score = 100
        /\ outJson[s].status = "success"
        /\ \A f \in Range(REQUIRED_FIELDS) :
              f \in DOMAIN outJson[s].extracted_fields /\ outJson[s].extracted_fields[f] # <<>>

\* C10 witness: process_file returned after writing a record
C10_Witness ==
    /\ pfpc = "returned"
    /\ Succeeded(log, "json")
    /\ cur.stem \in DOMAIN outJson
    /\ outJson[cur.stem].status = "success"

====
